---- MODULE Spec2Model ----
(***************************************************************************)
(* Model of the Discotron bot core: the message router (core/discotron.js  *)
(* onMessage), the guild registry (core/models/guild.js), the owner        *)
(* registry (core/models/owner.js) and the event bus (on / triggerEvent).  *)
(*                                                                         *)
(* Strings are sequences of one-character strings so that startsWith,      *)
(* toLowerCase and split are computed, not assumed.                        *)
(***************************************************************************)
EXTENDS Integers, Sequences, FiniteSets, TLC

VARIABLES
    boot,         \* position of bot/index.js startup: "config" (before loadConfig) |
                  \* "exited" (process.exit) | "start" (the promise of loadGuilds is
                  \* pending, its read in flight) | "running" (it resolved and the
                  \* login was attempted) | "rejected" (it rejected and startup logged
                  \* the error) | "readFailed" (its read was rejected, it is pending)
    db,           \* persisted tables (database/crud.js rows)
    guilds,       \* Guild._guilds : discordId -> Guild object
    actions,      \* event bus listeners: actionName -> sequence of listeners
    plugins,      \* Plugin.getAll(): sequence of [id, enabled] in registration order
    permLoads,    \* in-flight db.select("Permissions") of _loadPluginPermission
    owners,       \* Owner._owners
    ownerLoads,   \* number of in-flight db.select("Owners") of getOwners
    maintenance,  \* botSettings.maintenance
    spam,         \* SpamUser: userId -> number of actions inside the window
    deletes,      \* in-flight db.delete("Guilds") of Guild.delete
    updates,      \* trace of the last updateGuilds call (NoUpdate before the first)
    ownerCalls,   \* the setOwners calls so far and where their storage writes stand
    appConfig,    \* bot.json as bot/index.js finds it on disk
    triggered,    \* trace of the last triggerEvent call (NoTrigger before the first)
    mutations,    \* the guild mutator calls so far and where their storage writes stand
    dashboard,    \* the dashboard page's copy of one guild (NoDashboard until it is loaded)
    route         \* trace of the onMessage call that has just run (IdleRoute between calls):
                  \* msg, outcome ("bot" | "maintenance" | "channel": stopped by that gate,
                  \* "done": the plugin loop ended, "threw": an exception left the call),
                  \* before / spam: the spam counts when the call began / ended,
                  \* reached: plugins the loop came to, evaluated: plugins past the gates,
                  \* executed: doMessageAction calls, logged: failures caught and logged,
                  \* spamCalls: SpamUser calls, restricted: plugins whose isRestricted
                  \* call returned true

vars == <<boot, db, guilds, actions, plugins, permLoads, owners, ownerLoads,
          maintenance, spam, deletes, updates, ownerCalls, appConfig, triggered,
          mutations, dashboard, route>>

----------------------------------------------------------------------------
(* Bounds of the model *)

\* Number of actions inside the window from which SpamUser.isRestricted holds
SpamThreshold == 2
\* Cap on the per-user action counter
MaxActions == 3
\* Cap on the number of Guild objects ever constructed
MaxGuildObjects == 2
\* Cap on the Guild.delete storage operations of one guild that are in flight
MaxDeletes == 2
\* Cap on the number of setOwners calls
MaxSetOwners == 2
\* Cap on the number of guild mutator calls
MaxMutations == 2
\* Cap on the Permissions reads one Guild object has in flight for one plugin
MaxPermissionLoads == 2
\* Cap on concurrent getOwners storage reads
MaxOwnerLoads == 1

----------------------------------------------------------------------------
(* Universe *)

GuildIds == {"g1", "g2"}
ChannelIds == {"c1", "c2"}
UserIds == {"u1", "u2"}
PluginIds == {"P1", "P2"}
NoGuild == "null"
NoRow == "norow"

\* Discord side facts consumed by UserRole.describes
RoleR == "role:R"
MemberRoles(u, g) == IF u = "u1" /\ g = "g1" THEN {RoleR} ELSE {}

----------------------------------------------------------------------------
(* String helpers *)

StartsWith(s, pre) ==
    /\ Len(pre) <= Len(s)
    /\ SubSeq(s, 1, Len(pre)) = pre

LowerChar(c) ==
    CASE c = "H" -> "h"
      [] c = "P" -> "p"
      [] c = "E" -> "e"
      [] c = "L" -> "l"
      [] c = "O" -> "o"
      [] c = "I" -> "i"
      [] OTHER -> c

ToLowerCase(s) == [i \in 1..Len(s) |-> LowerChar(s[i])]

RECURSIVE Split(_)
Split(s) ==
    IF \E i \in 1..Len(s) : s[i] = " "
    THEN LET i == CHOOSE k \in 1..Len(s) :
                      /\ s[k] = " "
                      /\ \A j \in 1..(k - 1) : s[j] # " "
         IN <<SubSeq(s, 1, i - 1)>> \o Split(SubSeq(s, i + 1, Len(s)))
    ELSE <<s>>

SeqToSet(s) == {s[i] : i \in 1..Len(s)}

----------------------------------------------------------------------------
(* Installed plugins and their commands (Plugin / Command objects).        *)
(* A command is [name, trigger, scope, bypassSpamDetection, throws];       *)
(* throws says whether its doMessageAction raises an exception.            *)

Cmd(n, t, sc, bp, th) ==
    [name |-> n, trigger |-> t, scope |-> sc, bypassSpamDetection |-> bp, throws |-> th]

PluginDef(p) ==
    IF p = "P1"
    THEN [prefix |-> <<"p", " ">>,
          command |-> << Cmd("he", <<"h", "e">>, "everywhere", FALSE, TRUE),
                         Cmd("hello", <<"h", "e", "l", "l", "o">>, "everywhere", FALSE, FALSE) >>,
          words |-> << Cmd("hi", <<"h", "i">>, "everywhere", TRUE, FALSE),
                       Cmd("yo", <<"y", "o">>, "guild", FALSE, FALSE) >>,
          all |-> << Cmd("log", <<>>, "everywhere", FALSE, FALSE) >>]
    ELSE [prefix |-> <<>>,
          command |-> << Cmd("ping", <<"p", "i", "n", "g">>, "pm", FALSE, FALSE) >>,
          words |-> << Cmd("hello2", <<"h", "e", "l", "l", "o">>, "everywhere", FALSE, FALSE) >>,
          all |-> << Cmd("audit", <<>>, "guild", FALSE, TRUE) >>]

\* Command.triggeredBy(message, loweredCaseMessage, prefix)
TriggeredBy(c, type, lowered, prefix) ==
    CASE type = "command" -> StartsWith(lowered, prefix \o c.trigger)
      [] type = "words" -> \E i \in 1..Len(Split(lowered)) : Split(lowered)[i] = c.trigger
      [] OTHER -> TRUE

\* UserRole.describes(discordUserId): the principal is the user or a role the user holds
Describes(principal, u, g) == principal = u \/ principal \in MemberRoles(u, g)

\* Permission.allows(discordUserId): an empty list applies the default policy (everyone)
Allows(usersRoles, u, g) ==
    IF Len(usersRoles) = 0
    THEN TRUE
    ELSE \E i \in 1..Len(usersRoles) : Describes(usersRoles[i], u, g)

\* SpamUser.onAction(user)
OnAction(s, u) == [s EXCEPT ![u] = @ + 1]

\* SpamUser.isRestricted(user)
IsRestricted(s, u) == s[u] >= SpamThreshold

\* Owner.isOwner(discordUserId)
IsOwner(u) == u # "" /\ u \in owners

----------------------------------------------------------------------------
(* Message router: discotron.onMessage *)

NoMsg == [author |-> "", bot |-> FALSE, guild |-> NoGuild, channel |-> "", content |-> <<>>]

IdleRoute ==
    [msg |-> NoMsg, outcome |-> "idle", before |-> [u \in UserIds |-> 0],
     spam |-> [u \in UserIds |-> 0],
     reached |-> <<>>, evaluated |-> <<>>, executed |-> <<>>,
     logged |-> <<>>, spamCalls |-> <<>>, restricted |-> {}]

\* let guild; if (message.guild !== null) guild = Guild.get(message.guild.id);
HasGuild(m) == m.guild # NoGuild /\ m.guild \in DOMAIN guilds

\* faulty variant: the owner test is inverted
MaintenanceStopsOwners(m) == maintenance /\ IsOwner(m.author)

\* line 55: maintenance mode stops every author but an owner
MaintenanceStops(m) == maintenance /\ ~IsOwner(m.author)

\* faulty variant: the membership test is inverted
ChannelStopsAllowed(m) ==
    /\ HasGuild(m)
    /\ m.channel \in guilds[m.guild].allowedChannelIds
    /\ Cardinality(guilds[m.guild].allowedChannelIds) > 0

\* line 64: the allowed-channel gate
ChannelStops(m) ==
    /\ HasGuild(m)
    /\ m.channel \notin guilds[m.guild].allowedChannelIds
    /\ Cardinality(guilds[m.guild].allowedChannelIds) > 0

\* line 70
IsCommand(m) == ~HasGuild(m) \/ StartsWith(m.content, guilds[m.guild].commandPrefix)

\* line 81: guild.permissions[pluginId] is undefined, .allows raises a TypeError
PermissionThrows(m, p) == HasGuild(m) /\ p \notin DOMAIN guilds[m.guild].permissions

\* faulty variant: the negation of allows is lost
PermissionSkipsAllowed(m, p) ==
    HasGuild(m) /\ Allows(guilds[m.guild].permissions[p], m.author, m.guild)

\* line 81
PermissionSkips(m, p) ==
    HasGuild(m) /\ ~Allows(guilds[m.guild].permissions[p], m.author, m.guild)

\* faulty variant: an empty enabled-plugin set is read as "no plugin enabled"
EnabledSkipsWhenEmpty(m, p) ==
    /\ HasGuild(m)
    /\ p \notin guilds[m.guild].enabledPlugins

\* line 85
EnabledSkips(m, p) ==
    /\ HasGuild(m)
    /\ p \notin guilds[m.guild].enabledPlugins
    /\ Cardinality(guilds[m.guild].enabledPlugins) > 0

\* faulty variant: the guild prefix is left out of the effective prefix
EffectivePrefixOfPlugin(m, p) == PluginDef(p).prefix

\* lines 89-95
EffectivePrefix(m, p) ==
    (IF HasGuild(m) THEN guilds[m.guild].commandPrefix ELSE <<>>) \o PluginDef(p).prefix

\* lines 97-105
PrefixCandidates(m, p) ==
    IF IsCommand(m) /\ StartsWith(ToLowerCase(m.content), EffectivePrefix(m, p))
    THEN SelectSeq(PluginDef(p).command,
                   LAMBDA c : TriggeredBy(c, "command", ToLowerCase(m.content), EffectivePrefix(m, p)))
    ELSE <<>>

\* faulty variant: the words triggers are tried whatever the command triggers gave
WordCandidatesAlways(prefixed, m, p) ==
    prefixed \o SelectSeq(PluginDef(p).words,
                          LAMBDA c : TriggeredBy(c, "words", ToLowerCase(m.content), <<>>))

\* lines 107-114: the words triggers are tried when no command trigger matched
WordCandidates(prefixed, m, p) ==
    IF Len(prefixed) = 0
    THEN SelectSeq(PluginDef(p).words,
                   LAMBDA c : TriggeredBy(c, "words", ToLowerCase(m.content), <<>>))
    ELSE prefixed

\* faulty variant: owners go through the spam gate too
SpamGateAppliesToOwners(cands, m) ==
    /\ Len(cands) # 0
    /\ \E i \in 1..Len(cands) : ~cands[i].bypassSpamDetection

\* faulty variant: bypassSpamDetection is not looked at
SpamGateAppliesToExempt(cands, m) ==
    /\ Len(cands) # 0
    /\ ~IsOwner(m.author)

\* lines 117-120: the spam gate runs when a prefix/word candidate is not exempt
SpamGateApplies(cands, m) ==
    /\ Len(cands) # 0
    /\ ~IsOwner(m.author)
    /\ \E i \in 1..Len(cands) : ~cands[i].bypassSpamDetection

\* faulty variant: a restricted author loses the non-exempt candidates only
SpamGateKeepsExempt(s, cands, m, p) ==
    IF Len(cands) # 0 /\ ~IsOwner(m.author)
       /\ \E i \in 1..Len(cands) : ~cands[i].bypassSpamDetection
    THEN [spam |-> OnAction(s, m.author),
          commands |-> IF IsRestricted(OnAction(s, m.author), m.author)
                       THEN SelectSeq(cands, LAMBDA c : c.bypassSpamDetection) ELSE cands,
          calls |-> << [fn |-> "onAction", plugin |-> p],
                       [fn |-> "isRestricted", plugin |-> p] >>,
          restricted |-> IsRestricted(OnAction(s, m.author), m.author)]
    ELSE [spam |-> s, commands |-> cands, calls |-> <<>>, restricted |-> FALSE]

\* lines 116-128: the spam count after the gate, and the candidates that survive it
SpamGate(s, cands, m, p) ==
    IF SpamGateApplies(cands, m)
    THEN [spam |-> OnAction(s, m.author),
          commands |-> IF IsRestricted(OnAction(s, m.author), m.author)
                       THEN <<>> ELSE cands,
          calls |-> << [fn |-> "onAction", plugin |-> p],
                       [fn |-> "isRestricted", plugin |-> p] >>,
          restricted |-> IsRestricted(OnAction(s, m.author), m.author)]
    ELSE [spam |-> s, commands |-> cands, calls |-> <<>>, restricted |-> FALSE]

\* faulty variant: the all triggers are tried for command messages only
AllCandidatesWhenCommand(m, p) ==
    IF IsCommand(m)
    THEN SelectSeq(PluginDef(p).all, LAMBDA c : TriggeredBy(c, "all", ToLowerCase(m.content), <<>>))
    ELSE <<>>

\* lines 130-136
AllCandidates(m, p) ==
    SelectSeq(PluginDef(p).all, LAMBDA c : TriggeredBy(c, "all", ToLowerCase(m.content), <<>>))

\* faulty variant: a guild-scope command also runs without a guild context
ScopeFitsGuildAnywhere(c, m) ==
    \/ c.scope = "everywhere"
    \/ (c.scope = "pm" /\ ~HasGuild(m))
    \/ c.scope = "guild"

\* line 143
ScopeFits(c, m) ==
    \/ c.scope = "everywhere"
    \/ (c.scope = "pm" /\ ~HasGuild(m))
    \/ (c.scope = "guild" /\ HasGuild(m))

\* faulty variant: no try/catch, the first failing action ends the plugin's candidates
ExecutedUntilThrow(cmds, m, p) ==
    LET run == SelectSeq(cmds, LAMBDA c : ScopeFits(c, m))
        stop == IF \E i \in 1..Len(run) : run[i].throws
                THEN CHOOSE i \in 1..Len(run) :
                        run[i].throws /\ \A j \in 1..(i - 1) : ~run[j].throws
                ELSE Len(run)
    IN [i \in 1..stop |-> [plugin |-> p, command |-> run[i].name]]

\* lines 141-150: doMessageAction of each candidate in scope, failures caught and logged
Executed(cmds, m, p) ==
    LET run == SelectSeq(cmds, LAMBDA c : ScopeFits(c, m))
    IN [i \in 1..Len(run) |-> [plugin |-> p, command |-> run[i].name]]

Logged(cmds, m, p) ==
    LET bad == SelectSeq(cmds, LAMBDA c : ScopeFits(c, m) /\ c.throws)
    IN [i \in 1..Len(bad) |-> [plugin |-> p, command |-> bad[i].name]]

\* lines 73-151: one iteration of the loop over Plugin.getAll()
PluginStep(acc, pl, m) ==
    IF acc.outcome = "threw" THEN acc
    ELSE LET p == pl.id
             seen == [acc EXCEPT !.reached = Append(@, p)]
         IN IF ~pl.enabled THEN seen
            ELSE IF PermissionThrows(m, p) THEN [seen EXCEPT !.outcome = "threw"]
            ELSE IF PermissionSkips(m, p) THEN seen
            ELSE IF EnabledSkips(m, p) THEN seen
            ELSE LET cands == WordCandidates(PrefixCandidates(m, p), m, p)
                     gate == SpamGate(acc.spam, cands, m, p)
                     cmds == gate.commands \o AllCandidates(m, p)
                 IN [seen EXCEPT !.spam = gate.spam,
                                 !.evaluated = Append(@, p),
                                 !.spamCalls = @ \o gate.calls,
                                 !.restricted = IF gate.restricted THEN @ \cup {p} ELSE @,
                                 !.executed = @ \o Executed(cmds, m, p),
                                 !.logged = @ \o Logged(cmds, m, p)]

RECURSIVE PluginLoop(_, _, _)
PluginLoop(acc, i, m) ==
    IF i > Len(plugins) THEN acc
    ELSE PluginLoop(PluginStep(acc, plugins[i], m), i + 1, m)

\* lines 49-153: the whole call
Route(m) ==
    LET start == [IdleRoute EXCEPT !.msg = m, !.before = spam, !.spam = spam]
    IN IF m.bot THEN [start EXCEPT !.outcome = "bot"]
       ELSE IF MaintenanceStops(m) THEN [start EXCEPT !.outcome = "maintenance"]
       ELSE IF ChannelStops(m) THEN [start EXCEPT !.outcome = "channel"]
       ELSE PluginLoop([start EXCEPT !.outcome = "done"], 1, m)

----------------------------------------------------------------------------
(* Guild registry: core/models/guild.js *)

\* Defaults of a freshly constructed Guild (shared GuildModel constructor)
DefaultPrefix == <<>>

GuildOrder == <<"g1", "g2">>

\* Discord's own administrators of a guild: its owner (no role carries ADMINISTRATOR)
DiscordAdminsOf(g) == {"u2"}

\* discotron.on(actionName, action): the list of an action is created on first use
On(acts, actionName, action) ==
    IF actionName \notin DOMAIN acts
    THEN (actionName :> <<action>>) @@ acts
    ELSE [acts EXCEPT ![actionName] = Append(@, action)]

NoData == ""

\* faulty variant: the loop starts at the second listener
TriggerEventFromSecond(acts, actionName, data) ==
    IF actionName \notin DOMAIN acts
    THEN [name |-> actionName, data |-> data, called |-> <<>>, warned |-> TRUE]
    ELSE [name |-> actionName, data |-> data,
          called |-> SubSeq(acts[actionName], 2, Len(acts[actionName])), warned |-> FALSE]

\* discotron.triggerEvent(actionName, data): the listeners it calls, in order,
\* or a warning when the action has no list
TriggerEvent(acts, actionName, data) ==
    IF actionName \notin DOMAIN acts
    THEN [name |-> actionName, data |-> data, called |-> <<>>, warned |-> TRUE]
    ELSE [name |-> actionName, data |-> data, called |-> acts[actionName], warned |-> FALSE]

\* No triggerEvent call yet
NoTrigger == [name |-> "", data |-> NoData, called |-> <<>>, warned |-> FALSE]

\* Number of Guild objects constructed so far (each registers one listener per event)
Constructed == Len(TriggerEvent(actions, "plugin-loaded", NoData).called)

\* new Guild(discordId): subscribes to both events, starts _init, enters the registry
NewGuild(st, g) ==
    LET obj == Len(TriggerEvent(st.actions, "plugin-loaded", NoData).called) + 1
        me == [guild |-> g, obj |-> obj]
    IN [actions |-> On(On(st.actions, "plugin-loaded", me), "plugin-deleted", me),
        guilds |-> (g :> [obj |-> obj,
                          commandPrefix |-> DefaultPrefix,
                          allowedChannelIds |-> {},
                          enabledPlugins |-> {},
                          admins |-> {},
                          discordAdmins |-> {},
                          permissions |-> <<>>,
                          pc |-> "tryAdd"]) @@ st.guilds]

RECURSIVE NewGuilds(_, _, _)
NewGuilds(st, ids, i) ==
    IF i > Len(ids) THEN st ELSE NewGuilds(NewGuild(st, ids[i]), ids, i + 1)

\* bot.json with every required field set
GoodConfig ==
    [loadable |-> TRUE, token |-> "set", applicationId |-> "set",
     oauth2Secret |-> "set", redirectURI |-> "set"]

\* faulty variant: redirectURI is not looked at
ConfigCompleteWithoutRedirectURI(cfg) ==
    /\ cfg.loadable
    /\ cfg.token \notin {"undefined", ""}
    /\ cfg.applicationId \notin {"undefined", ""}
    /\ cfg.oauth2Secret \notin {"undefined", ""}

\* loadConfig reaches its end without process.exit()
ConfigComplete(cfg) ==
    /\ cfg.loadable
    /\ cfg.token \notin {"undefined", ""}
    /\ cfg.applicationId \notin {"undefined", ""}
    /\ cfg.oauth2Secret \notin {"undefined", ""}
    /\ cfg.redirectURI \notin {"undefined", ""}

\* bot/index.js line 11: loadConfig(), first statement of the startup that acts
LoadConfig ==
    /\ boot = "config"
    /\ boot' = IF ConfigComplete(appConfig) THEN "start" ELSE "exited"
    /\ UNCHANGED <<dashboard, db, guilds, actions, plugins, permLoads, owners, ownerLoads,
                   maintenance, spam, deletes, updates, ownerCalls, appConfig,
                   triggered, mutations, route>>

\* discotron.loadGuilds: one Guild per GuildSettings row, then startup goes on
\* (loadRepositories, the web server, connectToDiscord and registerEvents)
LoadGuilds ==
    /\ boot = "start"
    /\ LET rows == SelectSeq(GuildOrder, LAMBDA g : db.settings[g] # NoRow)
           st == NewGuilds([actions |-> actions, guilds |-> guilds], rows, 1)
       IN /\ Len(rows) <= MaxGuildObjects
          /\ guilds' = st.guilds
          /\ actions' = st.actions
    /\ boot' = "running"
    /\ route = IdleRoute /\ route' = route
    /\ UNCHANGED <<dashboard, db, plugins, permLoads, owners, ownerLoads, maintenance, spam, deletes,
                   updates, ownerCalls,
                   appConfig, triggered, mutations>>

\* discotron.loadGuilds: db.select("GuildSettings") is rejected. The then of
\* line 162 has no rejection handler and the executor calls neither resolve
\* nor reject: the promise startup waits on stays pending
LoadGuildsFails ==
    /\ boot = "start"
    /\ boot' = "readFailed"
    /\ route = IdleRoute /\ route' = route
    /\ UNCHANGED <<dashboard, db, guilds, actions, plugins, permLoads, owners, ownerLoads,
                   maintenance, spam, deletes, updates, ownerCalls, appConfig, triggered,
                   mutations>>

\* Guild._init: the next awaited storage operation of guild g completes.
\* The loads of a Guild object that Guild.delete has taken out of the registry
\* are not followed.
InitStep(g) ==
    /\ g \in DOMAIN guilds
    /\ guilds[g].pc \notin {"ready", "failed"}
    /\ LET pc == guilds[g].pc
       IN CASE pc = "tryAdd" ->
                 /\ guilds' = [guilds EXCEPT ![g].pc =
                                  IF g \in db.guilds THEN "settings" ELSE "insertGuild"]
                 /\ db' = db
            [] pc = "insertGuild" ->
                 /\ db' = [db EXCEPT !.guilds = @ \cup {g}]
                 /\ guilds' = [guilds EXCEPT ![g].pc = "insertSettings"]
            [] pc = "insertSettings" ->
                 /\ db' = [db EXCEPT !.settings[g] = DefaultPrefix]
                 /\ guilds' = [guilds EXCEPT ![g].pc = "settings"]
            [] pc = "settings" ->
                 /\ guilds' = IF db.settings[g] # NoRow
                              THEN [guilds EXCEPT ![g].commandPrefix = db.settings[g],
                                                  ![g].pc = "admins"]
                              ELSE [guilds EXCEPT ![g].pc = "failed"]
                 /\ db' = db
            [] pc = "admins" ->
                 /\ guilds' = [guilds EXCEPT ![g].admins = @ \cup db.admins[g],
                                             ![g].pc = "channels"]
                 /\ db' = db
            [] pc = "channels" ->
                 /\ guilds' = [guilds EXCEPT ![g].allowedChannelIds = @ \cup db.allowedChannels[g],
                                             ![g].pc = "plugins"]
                 /\ db' = db
            [] OTHER ->
                 /\ guilds' = [guilds EXCEPT ![g].enabledPlugins = @ \cup db.enabledPlugins[g],
                                             ![g].pc = "ready"]
                 /\ db' = db
    /\ route = IdleRoute /\ route' = route
    /\ UNCHANGED <<dashboard, boot, actions, plugins, permLoads, owners, ownerLoads, maintenance,
                   spam, deletes,
                   updates, ownerCalls,
                   appConfig, triggered, mutations>>

\* The listeners of an event that belong to a Guild object still in the registry
LiveListeners(a) ==
    SelectSeq(TriggerEvent(actions, a, NoData).called,
              LAMBDA l : l.guild \in DOMAIN guilds /\ guilds[l.guild].obj = l.obj)

\* faulty variant: the record is created only when the storage read completes
OnPluginLoadedAfterRead(gs, l, p) == gs

\* Guild.onPluginLoaded -> _loadPluginPermission: an empty record, then a storage read
OnPluginLoaded(gs, l, p) == [gs EXCEPT ![l.guild].permissions = (p :> <<>>) @@ @]

RECURSIVE TriggerPluginLoaded(_, _, _, _)
TriggerPluginLoaded(gs, ls, i, p) ==
    IF i > Len(ls) THEN gs
    ELSE TriggerPluginLoaded(OnPluginLoaded(gs, ls[i], p), ls, i + 1, p)

\* The number of _loadPluginPermission(p) reads Guild object obj of g has in
\* flight; permLoads holds them as <<g, obj, p, 1>> .. <<g, obj, p, n>>
InFlight(g, obj, p) == Cardinality({k \in permLoads : k[1] = g /\ k[2] = obj /\ k[3] = p})

\* A plugin finishes loading: it enters Plugin.getAll() and "plugin-loaded" is triggered
PluginLoaded(p, en) ==
    /\ boot = "running"
    /\ \A i \in 1..Len(plugins) : plugins[i].id # p
    /\ plugins' = Append(plugins, [id |-> p, enabled |-> en])
    /\ guilds' = TriggerPluginLoaded(guilds, LiveListeners("plugin-loaded"), 1, p)
    /\ \A l \in SeqToSet(LiveListeners("plugin-loaded")) :
          InFlight(l.guild, l.obj, p) < MaxPermissionLoads
    /\ permLoads' = permLoads \cup
          {<<l.guild, l.obj, p, InFlight(l.guild, l.obj, p) + 1>> :
              l \in SeqToSet(LiveListeners("plugin-loaded"))}
    /\ route = IdleRoute /\ route' = route
    /\ triggered' = TriggerEvent(actions, "plugin-loaded", p)
    /\ UNCHANGED <<dashboard, boot, db, actions, owners, ownerLoads, maintenance, spam, deletes,
                   updates, ownerCalls, appConfig, mutations>>

\* _loadPluginPermission: the storage read completes and its rows are pushed
PermissionLoaded(g, obj, p) ==
    /\ InFlight(g, obj, p) > 0
    /\ permLoads' = permLoads \ {<<g, obj, p, InFlight(g, obj, p)>>}
    /\ guilds' = IF g \in DOMAIN guilds /\ guilds[g].obj = obj
                    /\ p \in DOMAIN guilds[g].permissions
                 THEN [guilds EXCEPT ![g].permissions[p] = @ \o db.permissions[<<g, p>>]]
                 ELSE guilds
    /\ route = IdleRoute /\ route' = route
    /\ UNCHANGED <<dashboard, boot, db, actions, plugins, owners, ownerLoads, maintenance, spam, deletes,
                   updates, ownerCalls,
                   appConfig, triggered, mutations>>

\* Guild.isPluginEnabled(pluginId)
IsPluginEnabled(g, p) == p \in guilds[g].enabledPlugins

\* Guild.loadDiscordAdmins
LoadDiscordAdmins(gs, g) == [gs EXCEPT ![g].discordAdmins = DiscordAdminsOf(g)]

RECURSIVE LoadAllDiscordAdmins(_, _, _)
LoadAllDiscordAdmins(gs, ids, i) ==
    IF i > Len(ids) THEN gs
    ELSE LoadAllDiscordAdmins(LoadDiscordAdmins(gs, ids[i]), ids, i + 1)

\* No updateGuilds call yet
NoUpdate == [connected |-> {NoGuild}, deleted |-> {}, same |-> FALSE, again |-> {}]

\* discotron.updateGuilds with the guilds the client is connected to.
\* updates records the call: its connected set, the guilds Guild.delete was
\* invoked on, whether the previous call had the same connected set and, if
\* so, the guilds both calls invoked Guild.delete on
UpdateGuilds(connected) ==
    /\ boot = "running"
    /\ LET old == DOMAIN guilds
           added == SelectSeq(GuildOrder, LAMBDA g : g \in connected /\ g \notin old)
           removed == {g \in old : g \notin connected}
           st == NewGuilds([actions |-> actions, guilds |-> guilds], added, 1)
       IN /\ Constructed + Len(added) <= MaxGuildObjects
          /\ \A g \in removed : deletes[g] < MaxDeletes
          /\ actions' = st.actions
          /\ guilds' = LoadAllDiscordAdmins(st.guilds,
                          SelectSeq(GuildOrder, LAMBDA g : g \in connected), 1)
          /\ deletes' = [g \in GuildIds |-> IF g \in removed THEN deletes[g] + 1 ELSE deletes[g]]
          /\ updates' = [connected |-> connected,
                         deleted |-> removed,
                         same |-> updates.connected = connected,
                         again |-> IF updates.connected = connected
                                   THEN removed \cap updates.deleted ELSE {}]
    /\ route = IdleRoute /\ route' = route
    /\ UNCHANGED <<dashboard, boot, db, plugins, permLoads, owners, ownerLoads, maintenance, spam,
                   ownerCalls,
                   appConfig, triggered, mutations>>

\* Rows of the other tables that go with a guild's row
DeleteGuildRows(d, g) ==
    [d EXCEPT !.guilds = @ \ {g},
              !.settings[g] = NoRow,
              !.admins[g] = {},
              !.allowedChannels[g] = {},
              !.enabledPlugins[g] = {},
              !.permissions = [k \in DOMAIN @ |-> IF k[1] = g THEN <<>> ELSE @[k]]]

\* Guild.delete: db.delete("Guilds") completes, then the registry entry of that
\* discordId is removed, whichever Guild object holds it by then
DeleteDone(g) ==
    /\ deletes[g] > 0
    /\ deletes' = [deletes EXCEPT ![g] = @ - 1]
    /\ db' = DeleteGuildRows(db, g)
    /\ guilds' = [h \in DOMAIN guilds \ {g} |-> guilds[h]]
    /\ route = IdleRoute /\ route' = route
    /\ UNCHANGED <<dashboard, boot, actions, plugins, permLoads, owners, ownerLoads, maintenance, spam,
                   updates, ownerCalls,
                   appConfig, triggered, mutations>>

\* faulty variant: the plugin stays in the enabled set
OnPluginDeletedKeepsEnabled(gs, l, p) ==
    [gs EXCEPT ![l.guild].permissions = [q \in DOMAIN @ \ {p} |-> @[q]]]

\* Guild.onPluginDeleted
OnPluginDeleted(gs, l, p) ==
    [gs EXCEPT ![l.guild].permissions = [q \in DOMAIN @ \ {p} |-> @[q]],
               ![l.guild].enabledPlugins = @ \ {p}]

RECURSIVE TriggerPluginDeleted(_, _, _, _)
TriggerPluginDeleted(gs, ls, i, p) ==
    IF i > Len(ls) THEN gs
    ELSE TriggerPluginDeleted(OnPluginDeleted(gs, ls[i], p), ls, i + 1, p)

\* A plugin is deleted: "plugin-deleted" is triggered, then it leaves Plugin.getAll()
PluginDeleted(p) ==
    /\ boot = "running"
    /\ \E i \in 1..Len(plugins) : plugins[i].id = p
    /\ guilds' = TriggerPluginDeleted(guilds, LiveListeners("plugin-deleted"), 1, p)
    /\ plugins' = SelectSeq(plugins, LAMBDA pl : pl.id # p)
    /\ route = IdleRoute /\ route' = route
    /\ triggered' = TriggerEvent(actions, "plugin-deleted", p)
    /\ UNCHANGED <<dashboard, boot, db, actions, permLoads, owners, ownerLoads, maintenance, spam,
                   deletes, updates, ownerCalls, appConfig, mutations>>

----------------------------------------------------------------------------
(* Guild mutators of core/models/guild.js and their write-through.         *)
(* A call is recorded in mutations as [guild, obj, op, arg, plugin,        *)
(* enabled, pc, pending, logged]: pc is the storage operation the call is  *)
(* waiting for ("update" | "delete" | "insert"), "done", "failed" once an  *)
(* operation was rejected, or "threw" when the call raised an exception;   *)
(* pending holds the rows whose insert is in flight; logged says whether   *)
(* the catch(Logger.err) of the call has run.                              *)

Mutation(g, op, arg, p, en, pc) ==
    [guild |-> g, obj |-> guilds[g].obj, op |-> op, arg |-> arg, plugin |-> p,
     enabled |-> en, pc |-> pc, pending |-> {}, logged |-> FALSE]

\* a mutator may be called on any Guild of the registry once the API is served
CanMutate(g) ==
    /\ boot = "running"
    /\ g \in DOMAIN guilds
    /\ Len(mutations) < MaxMutations
    /\ route = IdleRoute

\* faulty variant: the in-memory prefix is left for the write's callback to set
SetCommandPrefixOnWrite(g, prefix) ==
    /\ CanMutate(g)
    /\ guilds' = guilds
    /\ mutations' = Append(mutations, Mutation(g, "commandPrefix", prefix, "", FALSE, "update"))
    /\ db' = db
    /\ route = IdleRoute /\ route' = route
    /\ UNCHANGED <<dashboard, boot, actions, plugins, permLoads, owners, ownerLoads, maintenance, spam,
                   deletes, updates, ownerCalls, appConfig, triggered>>

\* set commandPrefix(prefix)
SetCommandPrefix(g, prefix) ==
    /\ CanMutate(g)
    /\ guilds' = [guilds EXCEPT ![g].commandPrefix = prefix]
    /\ mutations' = Append(mutations, Mutation(g, "commandPrefix", prefix, "", FALSE, "update"))
    /\ db' = db
    /\ route = IdleRoute /\ route' = route
    /\ UNCHANGED <<dashboard, boot, actions, plugins, permLoads, owners, ownerLoads, maintenance, spam,
                   deletes, updates, ownerCalls, appConfig, triggered>>

\* set allowedChannelIds(discordChannelIds)
SetAllowedChannelIds(g, ids) ==
    /\ CanMutate(g)
    /\ guilds' = [guilds EXCEPT ![g].allowedChannelIds = SeqToSet(ids)]
    /\ mutations' = Append(mutations, Mutation(g, "allowedChannelIds", ids, "", FALSE, "delete"))
    /\ db' = db
    /\ route = IdleRoute /\ route' = route
    /\ UNCHANGED <<dashboard, boot, actions, plugins, permLoads, owners, ownerLoads, maintenance, spam,
                   deletes, updates, ownerCalls, appConfig, triggered>>

\* set admins(usersRoles)
SetAdmins(g, usersRoles) ==
    /\ CanMutate(g)
    /\ guilds' = [guilds EXCEPT ![g].admins = SeqToSet(usersRoles)]
    /\ mutations' = Append(mutations, Mutation(g, "admins", usersRoles, "", FALSE, "delete"))
    /\ db' = db
    /\ route = IdleRoute /\ route' = route
    /\ UNCHANGED <<dashboard, boot, actions, plugins, permLoads, owners, ownerLoads, maintenance, spam,
                   deletes, updates, ownerCalls, appConfig, triggered>>

\* the keys of Plugin.getAll()
InstalledIds == {plugins[i].id : i \in 1..Len(plugins)}

\* setPluginEnabled(pluginId, enabled): the new in-memory set (lines 243-259)
EnabledAfter(set, p, enabled) ==
    IF Cardinality(set) = 0
    THEN IF ~enabled
         THEN InstalledIds \ {p}
         ELSE set
    ELSE IF enabled THEN set \cup {p} ELSE set \ {p}

\* setPluginEnabled(pluginId, enabled)
SetPluginEnabled(g, p, enabled) ==
    /\ CanMutate(g)
    /\ guilds' = [guilds EXCEPT ![g].enabledPlugins = EnabledAfter(@, p, enabled)]
    /\ mutations' = Append(mutations, Mutation(g, "setPluginEnabled", <<>>, p, enabled, "delete"))
    /\ db' = db
    /\ route = IdleRoute /\ route' = route
    /\ UNCHANGED <<dashboard, boot, actions, plugins, permLoads, owners, ownerLoads, maintenance, spam,
                   deletes, updates, ownerCalls, appConfig, triggered>>

\* setPluginPermission(pluginId, userRoles): this._permissions[pluginId] is
\* undefined for a plugin without a record and the assignment of line 282 throws
SetPluginPermission(g, p, userRoles) ==
    /\ CanMutate(g)
    /\ IF p \in DOMAIN guilds[g].permissions
       THEN /\ guilds' = [guilds EXCEPT ![g].permissions[p] = userRoles]
            /\ mutations' = Append(mutations,
                   Mutation(g, "setPluginPermission", userRoles, p, FALSE, "delete"))
       ELSE /\ guilds' = guilds
            /\ mutations' = Append(mutations,
                   Mutation(g, "setPluginPermission", userRoles, p, FALSE, "threw"))
    /\ db' = db
    /\ route = IdleRoute /\ route' = route
    /\ UNCHANGED <<dashboard, boot, actions, plugins, permLoads, owners, ownerLoads, maintenance, spam,
                   deletes, updates, ownerCalls, appConfig, triggered>>

\* the rows the callback of the delete goes on to insert
RowsToInsert(c) ==
    CASE c.op = "allowedChannelIds" ->
             \* the return inside the loop of lines 212-217 ends it at the first channel
             IF Len(c.arg) = 0 THEN {} ELSE {c.arg[1]}
      [] c.op = "setPluginEnabled" ->
             \* this._enabledPlugins as it is when the delete has completed
             IF c.guild \in DOMAIN guilds /\ guilds[c.guild].obj = c.obj
             THEN guilds[c.guild].enabledPlugins ELSE {}
      [] OTHER -> SeqToSet(c.arg)

\* the table of the call loses the rows of the guild
RowsDeleted(d, c) ==
    CASE c.op = "allowedChannelIds" -> [d EXCEPT !.allowedChannels[c.guild] = {}]
      [] c.op = "admins" -> [d EXCEPT !.admins[c.guild] = {}]
      [] c.op = "setPluginEnabled" -> [d EXCEPT !.enabledPlugins[c.guild] = {}]
      [] OTHER -> [d EXCEPT !.permissions[<<c.guild, c.plugin>>] = <<>>]

\* the table of the call gains one row
RowInserted(d, c, x) ==
    CASE c.op = "allowedChannelIds" -> [d EXCEPT !.allowedChannels[c.guild] = @ \cup {x}]
      [] c.op = "admins" -> [d EXCEPT !.admins[c.guild] = @ \cup {x}]
      [] c.op = "setPluginEnabled" -> [d EXCEPT !.enabledPlugins[c.guild] = @ \cup {x}]
      [] OTHER -> [d EXCEPT !.permissions[<<c.guild, c.plugin>>] = Append(@, x)]

\* the db.update or db.delete of call i completes; after a delete the inserts are issued
WriteDone(i) ==
    /\ i \in 1..Len(mutations)
    /\ mutations[i].pc \in {"update", "delete"}
    /\ LET c == mutations[i]
       IN IF c.pc = "update"
          THEN /\ db' = IF db.settings[c.guild] # NoRow
                        THEN [db EXCEPT !.settings[c.guild] = c.arg] ELSE db
               /\ mutations' = [mutations EXCEPT ![i].pc = "done"]
          ELSE /\ db' = RowsDeleted(db, c)
               /\ mutations' = [mutations EXCEPT
                                   ![i].pending = RowsToInsert(c),
                                   ![i].pc = IF RowsToInsert(c) = {} THEN "done" ELSE "insert"]
    /\ route = IdleRoute /\ route' = route
    /\ UNCHANGED <<dashboard, boot, guilds, actions, plugins, permLoads, owners, ownerLoads, maintenance,
                   spam, deletes, updates, ownerCalls, appConfig, triggered>>

\* one db.insert of call i completes
InsertDone(i, x) ==
    /\ i \in 1..Len(mutations)
    /\ mutations[i].pc = "insert"
    /\ x \in mutations[i].pending
    /\ db' = RowInserted(db, mutations[i], x)
    /\ mutations' = [mutations EXCEPT
                        ![i].pending = @ \ {x},
                        ![i].pc = IF mutations[i].pending # {x} THEN "insert"
                                  ELSE IF mutations[i].logged THEN "failed" ELSE "done"]
    /\ route = IdleRoute /\ route' = route
    /\ UNCHANGED <<dashboard, boot, guilds, actions, plugins, permLoads, owners, ownerLoads, maintenance,
                   spam, deletes, updates, ownerCalls, appConfig, triggered>>

\* a storage operation of call i is rejected: catch(Logger.err) logs it. A
\* rejected update or delete ends the call; a rejected insert leaves the
\* other inserts in flight
WriteFails(i) ==
    /\ i \in 1..Len(mutations)
    /\ mutations[i].pc \in {"update", "delete", "insert"}
    /\ IF mutations[i].pc = "insert"
       THEN \E x \in mutations[i].pending :
               mutations' = [mutations EXCEPT
                                ![i].pending = @ \ {x},
                                ![i].logged = TRUE,
                                ![i].pc = IF mutations[i].pending # {x}
                                          THEN "insert" ELSE "failed"]
       ELSE mutations' = [mutations EXCEPT ![i].logged = TRUE, ![i].pc = "failed"]
    /\ route = IdleRoute /\ route' = route
    /\ UNCHANGED <<dashboard, boot, db, guilds, actions, plugins, permLoads, owners, ownerLoads,
                   maintenance, spam, deletes, updates, ownerCalls, appConfig, triggered>>

----------------------------------------------------------------------------
(* The dashboard's Guild: dashboard/www/scripts/models/plugin.js.          *)
(* dashboard is [open, guild, enabledPlugins, calls, getAll]: calls are    *)
(* the setPluginEnabled calls made on the page, in order, and getAll the   *)
(* plugin ids of the calls whose Plugin.getAll() has not resolved yet.     *)

NoDashboard ==
    [open |-> FALSE, guild |-> NoGuild, enabledPlugins |-> {}, calls |-> <<>>, getAll |-> <<>>]

\* discotron.Guild._loadAll: the page receives the guild as the bot holds it
DashboardLoadAll(g) ==
    /\ boot = "running"
    /\ g \in DOMAIN guilds
    /\ ~dashboard.open
    /\ dashboard' = [NoDashboard EXCEPT !.open = TRUE, !.guild = g,
                                        !.enabledPlugins = guilds[g].enabledPlugins]
    /\ route = IdleRoute /\ route' = route
    /\ UNCHANGED <<boot, db, guilds, actions, plugins, permLoads, owners, ownerLoads,
                   maintenance, spam, deletes, updates, ownerCalls, appConfig, triggered,
                   mutations>>

\* discotron.Guild.setPluginEnabled(pluginId, enabled) on the page: with an
\* empty set a disable waits for Plugin.getAll(), an enable does nothing
DashboardSetPluginEnabled(p, enabled) ==
    /\ dashboard.open
    /\ Len(dashboard.calls) < MaxMutations
    /\ dashboard' =
          [dashboard EXCEPT
              !.calls = Append(@, [plugin |-> p, enabled |-> enabled]),
              !.getAll = IF Cardinality(dashboard.enabledPlugins) = 0 /\ ~enabled
                         THEN Append(@, p) ELSE @,
              !.enabledPlugins = IF Cardinality(dashboard.enabledPlugins) = 0 THEN @
                                 ELSE IF enabled THEN @ \cup {p} ELSE @ \ {p}]
    /\ route = IdleRoute /\ route' = route
    /\ UNCHANGED <<boot, db, guilds, actions, plugins, permLoads, owners, ownerLoads,
                   maintenance, spam, deletes, updates, ownerCalls, appConfig, triggered,
                   mutations>>

\* the Plugin.getAll() of the oldest waiting call resolves (lines 393-399)
DashboardGetAllResolved ==
    /\ Len(dashboard.getAll) > 0
    /\ dashboard' =
          [dashboard EXCEPT
              !.getAll = Tail(@),
              !.enabledPlugins = @ \cup (InstalledIds \ {dashboard.getAll[1]})]
    /\ route = IdleRoute /\ route' = route
    /\ UNCHANGED <<boot, db, guilds, actions, plugins, permLoads, owners, ownerLoads,
                   maintenance, spam, deletes, updates, ownerCalls, appConfig, triggered,
                   mutations>>

----------------------------------------------------------------------------
(* Owner registry: core/models/owner.js *)

\* Owner.getOwners: an empty in-memory set starts a storage read
GetOwners ==
    /\ Cardinality(owners) = 0
    /\ ownerLoads < MaxOwnerLoads
    /\ ownerLoads' = ownerLoads + 1
    /\ route = IdleRoute /\ route' = route
    /\ UNCHANGED <<dashboard, boot, db, guilds, actions, plugins, permLoads, owners, maintenance,
                   spam, deletes,
                   updates, ownerCalls,
                   appConfig, triggered, mutations>>

\* the storage read of getOwners completes: every row is added to the set
GetOwnersDone ==
    /\ ownerLoads > 0
    /\ ownerLoads' = ownerLoads - 1
    /\ owners' = owners \cup db.owners
    /\ route = IdleRoute /\ route' = route
    /\ UNCHANGED <<dashboard, boot, db, guilds, actions, plugins, permLoads, maintenance, spam, deletes,
                   updates, ownerCalls,
                   appConfig, triggered, mutations>>

\* faulty variant: the empty-array guard of line 16 is missing
SetOwnersUnguarded(ids) ==
    /\ boot = "running"
    /\ Len(ownerCalls) < MaxSetOwners
    /\ owners' = ids
    /\ ownerCalls' = Append(ownerCalls, [ids |-> ids, pc |-> "delete", pending |-> ids])
    /\ route = IdleRoute /\ route' = route
    /\ UNCHANGED <<dashboard, boot, db, guilds, actions, plugins, permLoads, ownerLoads, maintenance,
                   spam, deletes, updates,
                   appConfig, triggered, mutations>>

\* Owner.setOwners(discordUserIds): nothing for an empty array; otherwise the
\* in-memory set is replaced and db.delete("Owners") is issued
SetOwners(ids) ==
    /\ boot = "running"
    /\ Len(ownerCalls) < MaxSetOwners
    /\ IF Cardinality(ids) = 0
       THEN /\ owners' = owners
            /\ ownerCalls' = Append(ownerCalls, [ids |-> ids, pc |-> "ignored", pending |-> {}])
       ELSE /\ owners' = ids
            /\ ownerCalls' = Append(ownerCalls, [ids |-> ids, pc |-> "delete", pending |-> ids])
    /\ route = IdleRoute /\ route' = route
    /\ UNCHANGED <<dashboard, boot, db, guilds, actions, plugins, permLoads, ownerLoads, maintenance,
                   spam, deletes, updates,
                   appConfig, triggered, mutations>>

\* setOwners: db.delete("Owners", {}, true) of call i completes, the inserts are issued
OwnerDeleteDone(i) ==
    /\ i \in 1..Len(ownerCalls)
    /\ ownerCalls[i].pc = "delete"
    /\ db' = [db EXCEPT !.owners = {}]
    /\ ownerCalls' = [ownerCalls EXCEPT ![i].pc = "insert"]
    /\ route = IdleRoute /\ route' = route
    /\ UNCHANGED <<dashboard, boot, guilds, actions, plugins, permLoads, owners, ownerLoads, maintenance,
                   spam, deletes, updates,
                   appConfig, triggered, mutations>>

\* setOwners: one db.insert("Owners") of call i completes
OwnerInsertDone(i, u) ==
    /\ i \in 1..Len(ownerCalls)
    /\ ownerCalls[i].pc = "insert"
    /\ u \in ownerCalls[i].pending
    /\ db' = [db EXCEPT !.owners = @ \cup {u}]
    /\ ownerCalls' = [ownerCalls EXCEPT ![i].pending = @ \ {u},
                                        ![i].pc = IF ownerCalls[i].pending = {u}
                                                  THEN "done" ELSE "insert"]
    /\ route = IdleRoute /\ route' = route
    /\ UNCHANGED <<dashboard, boot, guilds, actions, plugins, permLoads, owners, ownerLoads, maintenance,
                   spam, deletes, updates,
                   appConfig, triggered, mutations>>

----------------------------------------------------------------------------
(* Bot settings and spam guard *)

\* botSettings.maintenance = b
SetMaintenance(b) ==
    /\ maintenance # b
    /\ maintenance' = b
    /\ route = IdleRoute /\ route' = route
    /\ UNCHANGED <<dashboard, boot, db, guilds, actions, plugins, permLoads, owners, ownerLoads,
                   spam, deletes,
                   updates, ownerCalls,
                   appConfig, triggered, mutations>>

\* The oldest action of user u leaves the spam window
SpamExpire(u) ==
    /\ spam[u] > 0
    /\ spam' = [spam EXCEPT ![u] = @ - 1]
    /\ route = IdleRoute /\ route' = route
    /\ UNCHANGED <<dashboard, boot, db, guilds, actions, plugins, permLoads, owners, ownerLoads,
                   maintenance, deletes,
                   updates, ownerCalls,
                   appConfig, triggered, mutations>>

\* The Discord client delivers a message: discotron.onMessage(message) runs
\* to completion; route holds what the call did
OnMessage(m) ==
    /\ boot = "running"
    /\ route = IdleRoute
    /\ LET r == Route(m)
       IN /\ \A u \in UserIds : r.spam[u] <= MaxActions
          /\ route' = r
          /\ spam' = r.spam
    /\ UNCHANGED <<dashboard, boot, db, guilds, actions, plugins, permLoads, owners, ownerLoads,
                   maintenance, deletes,
                   updates, ownerCalls,
                   appConfig, triggered, mutations>>

\* onMessage returns to the event loop, which runs one handler at a time
OnMessageReturn ==
    /\ route # IdleRoute
    /\ route' = IdleRoute
    /\ UNCHANGED <<dashboard, boot, db, guilds, actions, plugins, permLoads, owners, ownerLoads,
                   maintenance, spam, deletes,
                   updates, ownerCalls,
                   appConfig, triggered, mutations>>

----------------------------------------------------------------------------
(* Storage at startup and the messages delivered *)

Str(w) ==
    CASE w = "!p hello" -> <<"!", "p", " ", "h", "e", "l", "l", "o">>
      [] w = "p hello" -> <<"p", " ", "h", "e", "l", "l", "o">>
      [] w = "hi" -> <<"h", "i">>
      [] w = "yo hi" -> <<"y", "o", " ", "h", "i">>
      [] w = "ping" -> <<"p", "i", "n", "g">>
      [] w = "!" -> <<"!">>
      [] w = "e!" -> <<"e", "!">>
      [] w = "!p hello hi" -> <<"!", "p", " ", "h", "e", "l", "l", "o", " ", "h", "i">>
      [] w = "E!p hello" -> <<"E", "!", "p", " ", "h", "e", "l", "l", "o">>
      [] OTHER -> <<>>

\* A database in which guild g1 is known (or not) with the given settings
Database(known, prefix, channels, enabled, perm1, ownerRows) ==
    [guilds |-> IF known THEN {"g1"} ELSE {},
     settings |-> [g \in GuildIds |-> IF known /\ g = "g1" THEN prefix ELSE NoRow],
     admins |-> [g \in GuildIds |-> {}],
     allowedChannels |-> [g \in GuildIds |-> IF known /\ g = "g1" THEN channels ELSE {}],
     enabledPlugins |-> [g \in GuildIds |-> IF known /\ g = "g1" THEN enabled ELSE {}],
     permissions |-> [k \in GuildIds \X PluginIds |->
                         IF known /\ k = <<"g1", "P1">> THEN perm1 ELSE <<>>],
     owners |-> ownerRows]

InitWith(dbs) ==
    /\ boot = "start"
    /\ db \in dbs
    /\ guilds = <<>>
    /\ actions = <<>>
    /\ plugins = <<>>
    /\ permLoads = {}
    /\ owners = {}
    /\ ownerLoads = 0
    /\ maintenance = FALSE
    /\ spam = [u \in UserIds |-> 0]
    /\ deletes = [g \in GuildIds |-> 0]
    /\ updates = NoUpdate
    /\ ownerCalls = <<>>
    /\ appConfig = GoodConfig
    /\ triggered = NoTrigger
    /\ mutations = <<>>
    /\ dashboard = NoDashboard
    /\ route = IdleRoute

Message(a, g, c, w) == [author |-> a, bot |-> FALSE, guild |-> g, channel |-> c, content |-> Str(w)]

----------------------------------------------------------------------------
(* Specifications *)

\* The order in which the repositories deliver their plugins, and the global
\* enabled flag each may carry
LoadOrder == <<"P1", "P2">>
EnabledFlags(p) == IF p = "P1" THEN {TRUE} ELSE BOOLEAN

LoadNextPlugin ==
    \E en \in BOOLEAN :
        /\ Len(plugins) < Len(LoadOrder)
        /\ en \in EnabledFlags(LoadOrder[Len(plugins) + 1])
        /\ PluginLoaded(LoadOrder[Len(plugins) + 1], en)

\* Routing through the guild gates: g1 is either known to storage with an
\* allowed channel, an enabled-plugin list and a permission list, or unknown
\* and discovered by updateGuilds
Databases ==
    {Database(k, Str("!"), {"c1"}, {"P2"}, <<RoleR>>, {}) : k \in BOOLEAN}

Messages ==
    {Message(a, g, c, w) : a \in UserIds, g \in {"g1", NoGuild}, c \in ChannelIds,
                           w \in {"!p hello", "p hello", "hi"}}
      \cup {[Message("u1", "g1", "c1", "hi") EXCEPT !.bot = TRUE]}

Init == InitWith(Databases)

Next ==
    \/ LoadGuilds
    \/ \E g \in GuildIds : InitStep(g)
    \/ LoadNextPlugin
    \/ \E k \in permLoads : PermissionLoaded(k[1], k[2], k[3])
    \/ UpdateGuilds({"g1"})
    \/ \E m \in Messages : OnMessage(m)
    \/ OnMessageReturn

Spec == Init /\ [][Next]_vars

\* Routing under maintenance mode, owners and the spam guard
SpamDatabases == {Database(TRUE, Str("!"), {}, {}, <<>>, {"u2"})}

SpamMessages ==
    {Message(a, g, "c1", w) : a \in UserIds, g \in {"g1", NoGuild},
                              w \in {"!p hello", "hi", "yo hi"}}

SpamInit == InitWith(SpamDatabases)

SpamNext ==
    \/ LoadGuilds
    \/ \E g \in GuildIds : InitStep(g)
    \/ LoadNextPlugin
    \/ \E k \in permLoads : PermissionLoaded(k[1], k[2], k[3])
    \/ GetOwners
    \/ GetOwnersDone
    \/ \E b \in BOOLEAN : SetMaintenance(b)
    \/ \E u \in UserIds : SpamExpire(u)
    \/ \E m \in SpamMessages : OnMessage(m)
    \/ OnMessageReturn

SpamSpec == SpamInit /\ [][SpamNext]_vars

\* The owner registry: the startup read of the Owners table and setOwners
\* calls of the dashboard, which is served once loadGuilds has resolved
OwnerIdSets == {{}, {"u1"}, {"u1", "u2"}}

OwnerInit == InitWith(SpamDatabases)

OwnerNext ==
    \/ LoadGuilds
    \/ \E g \in GuildIds : InitStep(g)
    \/ GetOwners
    \/ GetOwnersDone
    \/ \E ids \in OwnerIdSets : SetOwners(ids)
    \/ \E i \in 1..MaxSetOwners : OwnerDeleteDone(i)
    \/ \E i \in 1..MaxSetOwners, u \in UserIds : OwnerInsertDone(i, u)

OwnerSpec == OwnerInit /\ [][OwnerNext]_vars

\* The guild registry over reconnects: g1 is known to storage with the
\* prefix "e!", one allowed channel and both plugins enabled; g2 has a Guilds
\* row but no GuildSettings row (the two inserts of _tryAdd were cut short)
GuildDatabases ==
    {[Database(TRUE, Str("e!"), {"c1"}, {"P1", "P2"}, <<>>, {}) EXCEPT !.guilds = {"g1", "g2"}]}

GuildMessages ==
    {Message("u1", "g1", "c1", "E!p hello"),
     Message("u1", "g1", "c2", "hi"),
     Message("u1", "g2", "c1", "hi")}

GuildInit == InitWith(GuildDatabases)

GuildNext ==
    \/ LoadGuilds
    \/ \E g \in GuildIds : InitStep(g)
    \/ LoadNextPlugin
    \/ \E p \in PluginIds : PluginDeleted(p)
    \/ \E k \in permLoads : PermissionLoaded(k[1], k[2], k[3])
    \/ UpdateGuilds({"g1", "g2"})
    \/ \E m \in GuildMessages : OnMessage(m)
    \/ OnMessageReturn

GuildSpec == GuildInit /\ [][GuildNext]_vars

\* Plugins loaded, deleted and loaded again while the guilds load
PluginEventsNext ==
    \/ LoadGuilds
    \/ \E g \in GuildIds : InitStep(g)
    \/ LoadNextPlugin
    \/ \E p \in PluginIds : PluginDeleted(p)
    \/ \E k \in permLoads : PermissionLoaded(k[1], k[2], k[3])
    \/ UpdateGuilds({"g1", "g2"})

PluginEventsSpec == GuildInit /\ [][PluginEventsNext]_vars

\* Reconciliation of the registry while guilds leave and join again
ConnectedSets == {{}, {"g1"}, {"g1", "g2"}}

ReconcileNext ==
    \/ LoadGuilds
    \/ \E g \in GuildIds : InitStep(g)
    \/ \E c \in ConnectedSets : UpdateGuilds(c)
    \/ \E g \in GuildIds : DeleteDone(g)

ReconcileSpec == GuildInit /\ [][ReconcileNext]_vars

\* Startup from the first statement of bot/index.js, over the bot.json files
\* the process may find: unreadable, or each required field absent, empty or set
ConfigValues == {"undefined", "", "set"}

Configs ==
    [loadable : BOOLEAN, token : ConfigValues, applicationId : ConfigValues,
     oauth2Secret : ConfigValues, redirectURI : ConfigValues]

StartupInit ==
    /\ boot = "config"
    /\ appConfig \in Configs
    /\ db \in SpamDatabases
    /\ guilds = <<>>
    /\ actions = <<>>
    /\ plugins = <<>>
    /\ permLoads = {}
    /\ owners = {}
    /\ ownerLoads = 0
    /\ maintenance = FALSE
    /\ spam = [u \in UserIds |-> 0]
    /\ deletes = [g \in GuildIds |-> 0]
    /\ updates = NoUpdate
    /\ ownerCalls = <<>>
    /\ triggered = NoTrigger
    /\ mutations = <<>>
    /\ dashboard = NoDashboard
    /\ route = IdleRoute

StartupNext ==
    \/ LoadConfig
    \/ LoadGuilds
    \/ \E g \in GuildIds : InitStep(g)
    \/ UpdateGuilds({"g1"})

StartupSpec == StartupInit /\ [][StartupNext]_vars

\* The three kinds of trigger: a command message that also holds a trigger
\* word, a plain word message and a message without text
TriggerMessages ==
    {Message("u1", g, "c1", w) : g \in {"g1", NoGuild}, w \in {"!p hello hi", "hi", ""}}

TriggerNext ==
    \/ LoadGuilds
    \/ \E g \in GuildIds : InitStep(g)
    \/ LoadNextPlugin
    \/ \E k \in permLoads : PermissionLoaded(k[1], k[2], k[3])
    \/ \E u \in UserIds : SpamExpire(u)
    \/ \E m \in TriggerMessages : OnMessage(m)
    \/ OnMessageReturn

TriggerSpec == SpamInit /\ [][TriggerNext]_vars

\* Guild settings changed through the mutators while g1 is served: storage
\* holds g1 with prefix "!", the allowed channel c1 and P1 as its only
\* enabled plugin
SettingsDatabases == {Database(TRUE, Str("!"), {"c1"}, {"P1"}, <<>>, {})}

SettingsMessages == {Message("u1", "g1", "c1", "hi")}

SettingsInit == InitWith(SettingsDatabases)

\* the scenarios call the mutators of a guild once it is fully loaded
FullyLoaded == "g1" \in DOMAIN guilds /\ guilds["g1"].pc = "ready"

SettingsNext ==
    \/ LoadGuilds
    \/ \E g \in GuildIds : InitStep(g)
    \/ LoadNextPlugin
    \/ \E k \in permLoads : PermissionLoaded(k[1], k[2], k[3])
    \/ FullyLoaded /\ SetCommandPrefix("g1", Str("e!"))
    \/ FullyLoaded /\ SetAllowedChannelIds("g1", <<"c1", "c2">>)
    \/ FullyLoaded /\ SetAdmins("g1", <<"u1">>)
    \/ \E en \in BOOLEAN : FullyLoaded /\ SetPluginEnabled("g1", "P1", en)
    \/ FullyLoaded /\ SetPluginPermission("g1", "P1", <<RoleR>>)
    \/ \E i \in 1..MaxMutations : WriteDone(i)
    \/ \E i \in 1..MaxMutations, x \in ChannelIds \cup UserIds \cup PluginIds \cup {RoleR} :
           InsertDone(i, x)
    \/ \E i \in 1..MaxMutations : WriteFails(i)

SettingsSpec == SettingsInit /\ [][SettingsNext]_vars

\* Installed plugins enabled and disabled for g1 once it is fully loaded
EnablementNext ==
    \/ LoadGuilds
    \/ \E g \in GuildIds : InitStep(g)
    \/ LoadNextPlugin
    \/ \E k \in permLoads : PermissionLoaded(k[1], k[2], k[3])
    \/ \E p \in InstalledIds, en \in BOOLEAN : FullyLoaded /\ SetPluginEnabled("g1", p, en)
    \/ \E i \in 1..MaxMutations : WriteDone(i)
    \/ \E i \in 1..MaxMutations, p \in PluginIds : InsertDone(i, p)
    \/ \E i \in 1..MaxMutations : WriteFails(i)
    \/ \E m \in SettingsMessages : OnMessage(m)
    \/ OnMessageReturn

EnablementSpec == SettingsInit /\ [][EnablementNext]_vars

\* Plugins deleted while g1, whose enabled list holds P1 alone, is served
DeletionNext ==
    \/ LoadGuilds
    \/ \E g \in GuildIds : InitStep(g)
    \/ LoadNextPlugin
    \/ \E k \in permLoads : PermissionLoaded(k[1], k[2], k[3])
    \/ \E p \in PluginIds : PluginDeleted(p)
    \/ \E m \in SettingsMessages : OnMessage(m)
    \/ OnMessageReturn

DeletionSpec == SettingsInit /\ [][DeletionNext]_vars

\* Messages of a guild the bot joined after its ready event: onJoinGuild
\* (discotron.js 217) is empty, so g2 never gets an entry in the registry,
\* while g1 is known to storage and connected at ready
JoinedMessages == {Message("u1", g, "c2", "ping") : g \in {"g1", "g2", NoGuild}}

JoinedNext ==
    \/ LoadGuilds
    \/ \E g \in GuildIds : InitStep(g)
    \/ LoadNextPlugin
    \/ \E k \in permLoads : PermissionLoaded(k[1], k[2], k[3])
    \/ UpdateGuilds({"g1"})
    \/ \E m \in JoinedMessages : OnMessage(m)
    \/ OnMessageReturn

JoinedSpec == SettingsInit /\ [][JoinedNext]_vars

\* Permissions of P1 set through the dashboard while P1 is loaded, deleted
\* and loaded again: storage holds g1 with the Permissions row u2 for P1
PermissionDatabases == {Database(TRUE, Str("!"), {}, {}, <<"u2">>, {})}

PermissionInit == InitWith(PermissionDatabases)

PermissionNext ==
    \/ LoadGuilds
    \/ \E g \in GuildIds : InitStep(g)
    \/ LoadNextPlugin
    \/ \E p \in PluginIds : PluginDeleted(p)
    \/ \E k \in permLoads : PermissionLoaded(k[1], k[2], k[3])
    \/ FullyLoaded /\ SetPluginPermission("g1", "P1", <<RoleR>>)
    \/ \E i \in 1..MaxMutations : WriteDone(i)
    \/ \E i \in 1..MaxMutations : InsertDone(i, RoleR)
    \/ \E i \in 1..MaxMutations : WriteFails(i)

PermissionSpec == PermissionInit /\ [][PermissionNext]_vars

\* The dashboard page and the bot on one guild: the page is loaded once g1
\* and both plugins are, and the bot applies the set-plugin-enabled queries
\* of the page
DashboardInit == InitWith(SpamDatabases)

DashboardNext ==
    \/ LoadGuilds
    \/ \E g \in GuildIds : InitStep(g)
    \/ LoadNextPlugin
    \/ \E k \in permLoads : PermissionLoaded(k[1], k[2], k[3])
    \/ FullyLoaded /\ Len(plugins) = Len(LoadOrder) /\ DashboardLoadAll("g1")
    \/ \E p \in InstalledIds, en \in BOOLEAN : DashboardSetPluginEnabled(p, en)
    \/ DashboardGetAllResolved
    \/ \E p \in InstalledIds, en \in BOOLEAN :
           dashboard.open /\ SetPluginEnabled(dashboard.guild, p, en)
    \/ \E i \in 1..MaxMutations : WriteDone(i)
    \/ \E i \in 1..MaxMutations, p \in PluginIds : InsertDone(i, p)

DashboardSpec == DashboardInit /\ [][DashboardNext]_vars

\* Startup when the read of loadGuilds may be rejected. The event loop runs
\* loadConfig and, once the storage layer has answered, the callback of the
\* read, whichever way it was answered
SettleNext ==
    \/ LoadConfig
    \/ LoadGuilds
    \/ LoadGuildsFails
    \/ \E g \in GuildIds : InitStep(g)
    \/ UpdateGuilds({"g1"})

SettleSpec ==
    /\ StartupInit
    /\ [][SettleNext]_vars
    /\ WF_vars(LoadConfig)
    /\ WF_vars(LoadGuilds \/ LoadGuildsFails)

----------------------------------------------------------------------------
(* Vocabulary of the claims *)

Called == route.outcome # "idle"
Msg == route.msg
InGuild == HasGuild(Msg)
TheGuild == guilds[Msg.guild]
Loaded == {plugins[i].id : i \in 1..Len(plugins)}
GloballyEnabled == {plugins[i].id : i \in {k \in 1..Len(plugins) : plugins[k].enabled}}
EvaluatedSet == SeqToSet(route.evaluated)
ExecutedNames(p) == {route.executed[i].command : i \in {k \in 1..Len(route.executed) : route.executed[k].plugin = p}}
ExecutedOf(p) == SelectSeq(route.executed, LAMBDA e : e.plugin = p)
Names(cmds) == {cmds[i].name : i \in 1..Len(cmds)}
PrefixWordNames(p) == Names(PluginDef(p).command) \cup Names(PluginDef(p).words)
\* the message passed the bot, maintenance and channel gates
PastMessageGates == route.outcome \in {"done", "threw"}
\* the guild's Permission record for p exists and allows the author
PermissionPasses(p) ==
    /\ p \in DOMAIN TheGuild.permissions
    /\ Allows(TheGuild.permissions[p], Msg.author, Msg.guild)
\* the guild's enabled-plugin set lets p through
EnabledPasses(p) == TheGuild.enabledPlugins = {} \/ p \in TheGuild.enabledPlugins

----------------------------------------------------------------------------
(* C1: a message of a registered guild whose allowed-channel set is not    *)
(* empty, sent from a channel outside that set, executes no command of any *)
(* plugin and registers no spam action.                                    *)
C1_OutsideChannelExecutesNothing ==
    (/\ Called
     /\ InGuild
     /\ TheGuild.allowedChannelIds # {}
     /\ Msg.channel \notin TheGuild.allowedChannelIds)
    => (/\ route.executed = <<>>
        /\ route.spamCalls = <<>>
        /\ route.spam = route.before)

\* a human message from channel c2 of g1, whose allowed set is {c1}, with both plugins loaded
C1_Witness ==
    /\ Called
    /\ ~Msg.bot
    /\ InGuild
    /\ TheGuild.allowedChannelIds = {"c1"}
    /\ Msg.channel = "c2"
    /\ Msg.content = Str("!p hello")
    /\ Len(plugins) = 2
    /\ route.outcome = "channel"

(* C2: in a guild whose enabledPlugins set is empty, a message that passes *)
(* the bot, maintenance and channel gates and the permission gate of every *)
(* globally enabled plugin has every globally enabled plugin evaluated.    *)
C2_EmptyEnabledSetMeansAll ==
    (/\ Called
     /\ InGuild
     /\ TheGuild.enabledPlugins = {}
     /\ ~Msg.bot
     /\ ~MaintenanceStops(Msg)
     /\ ~ChannelStops(Msg)
     /\ \A p \in GloballyEnabled : PermissionPasses(p))
    => (\A p \in GloballyEnabled : p \in EvaluatedSet)

\* P1 and P2 both globally enabled and both evaluated for a message of g1
C2_Witness ==
    /\ Called
    /\ InGuild
    /\ TheGuild.enabledPlugins = {}
    /\ GloballyEnabled = {"P1", "P2"}
    /\ route.evaluated = <<"P1", "P2">>
    /\ route.executed # <<>>

(* C3: with a guild context, no command of plugin P is executed for an     *)
(* author the guild's Permission record for P does not allow, nor when the *)
(* guild's enabledPlugins set is not empty and lacks P; every other        *)
(* globally enabled plugin whose own gates pass is still evaluated.        *)
C3_GateSkipsOnlyThatPlugin ==
    (Called /\ InGuild /\ PastMessageGates)
    => \A p \in Loaded :
          (\/ (p \in DOMAIN TheGuild.permissions
                 /\ ~Allows(TheGuild.permissions[p], Msg.author, Msg.guild))
           \/ ~EnabledPasses(p))
          => (/\ ExecutedNames(p) = {}
              /\ p \notin EvaluatedSet
              /\ \A q \in GloballyEnabled \ {p} :
                    (PermissionPasses(q) /\ EnabledPasses(q)) => q \in EvaluatedSet)

\* u2 lacks role R, so P1 is skipped by its Permission record while P2 runs
C3_Witness ==
    /\ Called
    /\ InGuild
    /\ "P1" \in DOMAIN TheGuild.permissions
    /\ TheGuild.permissions["P1"] = <<RoleR>>
    /\ Msg.author = "u2"
    /\ TheGuild.enabledPlugins = {}
    /\ route.evaluated = <<"P2">>
    /\ ExecutedNames("P2") # {}

(* C9: whatever happens while one plugin is processed, onMessage never     *)
(* aborts with an exception and every other globally enabled plugin whose  *)
(* gates pass has its matching all-type commands executed.                 *)
C9_PluginsIndependent ==
    Called =>
        (/\ route.outcome # "threw"
         /\ (InGuild /\ PastMessageGates) =>
               \A q \in GloballyEnabled :
                  (PermissionPasses(q) /\ EnabledPasses(q)) => q \in EvaluatedSet)

(* C10: in a guild with prefix G, a command-type command of a plugin with  *)
(* prefix P executes only for a message that starts with G and whose       *)
(* lower-cased text starts with G+P; with G = "!" and P = "p ", "!p hello" *)
(* executes hello (unless the spam gate drops it) and "p hello" does not.  *)
C10_GuildPrefixThenPluginPrefix ==
    (Called /\ InGuild)
    => (/\ \A p \in Loaded :
              (ExecutedNames(p) \cap Names(PluginDef(p).command) # {})
              => (/\ StartsWith(Msg.content, TheGuild.commandPrefix)
                  /\ StartsWith(ToLowerCase(Msg.content),
                                TheGuild.commandPrefix \o PluginDef(p).prefix))
        /\ (/\ TheGuild.commandPrefix = Str("!")
            /\ Msg.content = Str("!p hello")
            /\ "P1" \in EvaluatedSet
            /\ "P1" \notin route.restricted)
           => "hello" \in ExecutedNames("P1")
        /\ (TheGuild.commandPrefix = Str("!") /\ Msg.content = Str("p hello"))
           => "hello" \notin ExecutedNames("P1"))

\* both messages of the scenario have been routed in g1 with prefix "!": this
\* state is the one after "!p hello" executed hello
C10_Witness ==
    /\ Called
    /\ InGuild
    /\ TheGuild.commandPrefix = Str("!")
    /\ Msg.content = Str("!p hello")
    /\ Msg.channel \in TheGuild.allowedChannelIds
    /\ "hello" \in ExecutedNames("P1")

\* the other half of the scenario: "p hello" routed in g1 with prefix "!", P1 evaluated
C10_WitnessMissingPrefix ==
    /\ Called
    /\ InGuild
    /\ TheGuild.commandPrefix = Str("!")
    /\ Msg.content = Str("p hello")
    /\ "P1" \in EvaluatedSet

----------------------------------------------------------------------------
(* Claims about owners, maintenance mode and the spam guard (SpamSpec) *)

\* the prefix/word candidates of plugin p for the routed message, before the spam gate
Matched(p) == WordCandidates(PrefixCandidates(Msg, p), Msg, p)
InScope(cmds) == SelectSeq(cmds, LAMBDA c : ScopeFits(c, Msg))
NameSeq(cmds) == [i \in 1..Len(cmds) |-> cmds[i].name]
CallSeq(calls) == [i \in 1..Len(calls) |-> calls[i].command]
AllCommands(p) == PluginDef(p).command \o PluginDef(p).words \o PluginDef(p).all
ThrowingNames(p) == Names(SelectSeq(AllCommands(p), LAMBDA c : c.throws))
SpamCallsFor(p) == SelectSeq(route.spamCalls, LAMBDA c : c.plugin = p)
HasNonExempt(cmds) == \E i \in 1..Len(cmds) : ~cmds[i].bypassSpamDetection

(* C4: for a message authored by an owner, maintenance mode does not stop  *)
(* the routing, SpamUser.onAction and SpamUser.isRestricted are not called *)
(* and every matched prefix/word candidate in scope is executed.           *)
C4_OwnerBypassesMaintenanceAndSpam ==
    (Called /\ ~Msg.bot /\ IsOwner(Msg.author))
    => (/\ route.outcome # "maintenance"
        /\ route.spamCalls = <<>>
        /\ route.spam = route.before
        /\ \A p \in EvaluatedSet : Names(InScope(Matched(p))) \subseteq ExecutedNames(p))

\* an owner whose spam count is over the threshold has a non-exempt command
\* executed while the bot is in maintenance mode
C4_Witness ==
    /\ Called
    /\ IsOwner(Msg.author)
    /\ maintenance
    /\ IsRestricted(route.before, Msg.author)
    /\ Msg.content = Str("!p hello")
    /\ "hello" \in ExecutedNames("P1")

(* C5: in maintenance mode the routing of a message whose author is not an *)
(* owner executes nothing, registers no spam action and leaves the guilds, *)
(* plugins, owners, spam counts and storage as they were.                  *)
C5_MaintenanceIgnoresNonOwner ==
    [][(/\ route = IdleRoute
        /\ route' # IdleRoute
        /\ maintenance
        /\ ~IsOwner(route'.msg.author))
       => (/\ route'.executed = <<>>
           /\ route'.spamCalls = <<>>
           /\ route'.reached = <<>>
           /\ UNCHANGED <<dashboard, boot, db, guilds, actions, plugins, permLoads, owners,
                          ownerLoads, maintenance, spam, deletes, updates,
                          ownerCalls, appConfig, triggered, mutations>>)]_vars

\* a command message of a non-owner was stopped by maintenance mode with both plugins loaded
C5_Witness ==
    /\ Called
    /\ maintenance
    /\ ~Msg.bot
    /\ ~IsOwner(Msg.author)
    /\ route.outcome = "maintenance"
    /\ Msg.content = Str("!p hello")
    /\ Len(plugins) = 2

(* C6: when the Spam Guard reports a non-owner author as restricted and    *)
(* plugin p has a matched non-exempt prefix/word candidate, no prefix- or  *)
(* word-triggered command of p executes and every matching all-type        *)
(* command of p in scope executes.                                         *)
C6_RestrictedLosesPrefixWordKeepsAll ==
    Called =>
        \A p \in EvaluatedSet :
            (/\ ~IsOwner(Msg.author)
             /\ HasNonExempt(Matched(p))
             /\ (IsRestricted(route.before, Msg.author) \/ p \in route.restricted))
            => (/\ ExecutedNames(p) \cap PrefixWordNames(p) = {}
                /\ Names(InScope(AllCandidates(Msg, p))) \subseteq ExecutedNames(p))

\* a restricted author sends "yo hi": P1 matched the exempt hi and the
\* non-exempt yo, neither ran, and the all-type log did
C6_Witness ==
    /\ Called
    /\ InGuild
    /\ IsRestricted(route.before, Msg.author)
    /\ Msg.content = Str("yo hi")
    /\ Len(Matched("P1")) = 2
    /\ ExecutedNames("P1") = {"log"}

(* C7: for an author restricted before the call, a plugin whose matched    *)
(* prefix/word candidates are all spam-exempt executes them and makes no   *)
(* SpamUser call; a plugin with a matched non-exempt candidate executes    *)
(* none of them, and no error is raised or logged for the drop.            *)
C7_ExemptStillRunsNonExemptDropped ==
    (Called /\ ~IsOwner(Msg.author) /\ IsRestricted(route.before, Msg.author))
    => \A p \in EvaluatedSet :
          /\ (Len(Matched(p)) # 0 /\ ~HasNonExempt(Matched(p)))
             => (/\ Names(InScope(Matched(p))) \subseteq ExecutedNames(p)
                 /\ SpamCallsFor(p) = <<>>)
          /\ HasNonExempt(Matched(p))
             => (/\ Names(Matched(p)) \cap ExecutedNames(p) = {}
                 /\ route.outcome = "done"
                 /\ \A i \in 1..Len(route.logged) :
                       route.logged[i].plugin = p
                       => route.logged[i].command \notin Names(Matched(p)))

\* a restricted author sends "hi": the exempt hi of P1 runs
C7_Witness ==
    /\ Called
    /\ ~IsOwner(Msg.author)
    /\ IsRestricted(route.before, Msg.author)
    /\ Msg.content = Str("hi")
    /\ "hi" \in ExecutedNames("P1")
    /\ route.spamCalls = <<>>

(* C8: a command action that throws is caught and logged, onMessage ends   *)
(* normally, and the calls made for each evaluated plugin are exactly its  *)
(* surviving candidates in scope, those after the failing one included.    *)
C8_ThrowDoesNotStopOthers ==
    Called =>
        /\ \A i \in 1..Len(route.executed) :
              route.executed[i].command \in ThrowingNames(route.executed[i].plugin)
              => (/\ route.executed[i] \in SeqToSet(route.logged)
                  /\ route.outcome = "done")
        /\ \A p \in EvaluatedSet :
              CallSeq(ExecutedOf(p)) =
                  NameSeq(InScope((IF p \in route.restricted THEN <<>> ELSE Matched(p))
                                  \o AllCandidates(Msg, p)))

\* "!p hello" in g1: he of P1 throws, hello and log of P1 still run, then P2's
\* hello2 and its throwing audit
C8_Witness ==
    /\ Called
    /\ CallSeq(route.executed) = <<"he", "hello", "log", "hello2", "audit">>
    /\ Len(route.logged) = 2
    /\ route.outcome = "done"

\* the candidates of plugin p that survive the spam gate, all-type ones included
Survivors(p) ==
    (IF p \in route.restricted THEN <<>> ELSE Matched(p)) \o AllCandidates(Msg, p)

----------------------------------------------------------------------------
(* Claims about the owner registry (OwnerSpec) *)

\* the setOwners calls that were given a non-empty array
OwnerReplacements == SelectSeq(ownerCalls, LAMBDA c : c.ids # {})

(* C15: a setOwners call with an empty array leaves the in-memory owner    *)
(* set and the storage as they were and issues no delete and no insert.    *)
C15_SetOwnersEmptyIsNoOp ==
    [][(/\ Len(ownerCalls') = Len(ownerCalls) + 1
        /\ ownerCalls'[Len(ownerCalls')].ids = {})
       => (/\ owners' = owners
           /\ db' = db
           /\ ownerCalls'[Len(ownerCalls')].pc = "ignored"
           /\ ownerCalls'[Len(ownerCalls')].pending = {}
           /\ SubSeq(ownerCalls', 1, Len(ownerCalls)) = ownerCalls)]_vars

\* setOwners([]) was called after setOwners(["u1"]): the owner set is still {u1}
C15_Witness ==
    /\ Len(ownerCalls) = 2
    /\ ownerCalls[1].ids = {"u1"}
    /\ ownerCalls[2].ids = {}
    /\ ownerCalls[2].pc = "ignored"
    /\ owners = {"u1"}

(* C16: once setOwners has been called with a non-empty array, the         *)
(* in-memory owner set is exactly the ids of the most recent such call,    *)
(* whatever getOwners calls and storage reads are interleaved.             *)
C16_OwnersAreLastSetOwners ==
    Len(OwnerReplacements) > 0
    => owners = OwnerReplacements[Len(OwnerReplacements)].ids

----------------------------------------------------------------------------
(* Claims about the reconciliation of the registry (ReconcileSpec) *)

\* no storage operation of the registry is pending and none has failed
RegistryQuiet ==
    /\ \A g \in GuildIds : deletes[g] = 0
    /\ \A g \in DOMAIN guilds : guilds[g].pc = "ready"

(* C13: when updateGuilds is called twice in a row with the same connected *)
(* set, the second call invokes Guild.delete on no guild the first call    *)
(* already invoked it on, whatever storage operations completed between.   *)
C13_UpdateGuildsIdempotent ==
    updates.same => updates.again = {}

(* C14: after any sequence of updateGuilds calls, once no storage          *)
(* operation is pending and none has failed, the identifiers in the        *)
(* registry are the connected set of the last updateGuilds call.           *)
C14_RegistryEqualsLastConnected ==
    (updates # NoUpdate /\ RegistryQuiet) => DOMAIN guilds = updates.connected

----------------------------------------------------------------------------
(* Claims about guilds in the router (GuildSpec) and on the event bus     *)
(* (PluginEventsSpec)                                                      *)

\* the positions of Guild._init before its last awaited load has completed
LoadingStates ==
    {"tryAdd", "insertGuild", "insertSettings", "settings", "admins", "channels", "plugins"}

\* the command-type commands of p the routed message triggers under the
\* guild prefix followed by the plugin prefix, as configured
TriggeredCommands(p) ==
    SelectSeq(PluginDef(p).command,
              LAMBDA c : TriggeredBy(c, "command", ToLowerCase(Msg.content),
                                     TheGuild.commandPrefix \o PluginDef(p).prefix))

(* C11: in a guild, when the lower-cased message starts with the guild     *)
(* prefix followed by the plugin prefix as configured, the message is      *)
(* treated as a command: the plugin's matching command-type commands in    *)
(* scope are executed unless the spam gate drops them.                     *)
C11_PrefixesMatchUpToMessageCase ==
    (Called /\ InGuild)
    => \A p \in EvaluatedSet :
          (/\ StartsWith(ToLowerCase(Msg.content),
                          TheGuild.commandPrefix \o PluginDef(p).prefix)
           /\ p \notin route.restricted)
          => Names(InScope(TriggeredCommands(p))) \subseteq ExecutedNames(p)

(* C17: no command is executed for a message of a guild whose loading is   *)
(* still under way, and none for a message from a channel outside the      *)
(* guild's persisted, non-empty allowed-channel list.                      *)
C17_RouterConsultsReadyGuildsOnly ==
    (Called /\ InGuild /\ route.executed # <<>>)
    => (/\ TheGuild.pc \notin LoadingStates
        /\ (db.allowedChannels[Msg.guild] = {}
              \/ Msg.channel \in db.allowedChannels[Msg.guild]))

(* C18: no command is executed for a message that originates in a guild    *)
(* whose loading has failed.                                               *)
C18_FailedGuildRoutesNothing ==
    (Called /\ InGuild /\ TheGuild.pc = "failed") => route.executed = <<>>

(* C19: the step that loads plugin p and triggers plugin-loaded leaves     *)
(* every Guild that was in the registry with a Permission record for p.    *)
C19_PluginLoadedReachesEveryGuild ==
    [][\A p \in PluginIds :
          (p \notin Loaded /\ p \in Loaded')
          => \A g \in DOMAIN guilds :
                /\ g \in DOMAIN guilds'
                /\ p \in DOMAIN guilds'[g].permissions]_vars

\* P2 was loaded while g1 and g2 were both in the registry
C19_Witness ==
    /\ DOMAIN guilds = {"g1", "g2"}
    /\ "P2" \in Loaded
    /\ \A g \in DOMAIN guilds : "P2" \in DOMAIN guilds[g].permissions
    /\ "P1" \notin DOMAIN guilds["g2"].permissions

(* C20: the step that triggers plugin-deleted for plugin p leaves every    *)
(* Guild of the registry without a Permission record for p and without p   *)
(* in its enabledPlugins set, and with everything else as it was.          *)
C20_PluginDeletedReachesEveryGuild ==
    [][\A p \in PluginIds :
          (p \in Loaded /\ p \notin Loaded')
          => \A g \in DOMAIN guilds :
                /\ g \in DOMAIN guilds'
                /\ DOMAIN guilds'[g].permissions = DOMAIN guilds[g].permissions \ {p}
                /\ \A q \in DOMAIN guilds'[g].permissions :
                      guilds'[g].permissions[q] = guilds[g].permissions[q]
                /\ guilds'[g].enabledPlugins = guilds[g].enabledPlugins \ {p}
                /\ [guilds'[g] EXCEPT !.permissions = <<>>, !.enabledPlugins = {}]
                     = [guilds[g] EXCEPT !.permissions = <<>>, !.enabledPlugins = {}]]_vars

\* P1 was deleted after g1 had loaded its enabled-plugin list {P1, P2} and
\* both Permission records: only P2 is left in each
C20_Witness ==
    /\ "g1" \in DOMAIN guilds
    /\ guilds["g1"].pc = "ready"
    /\ db.enabledPlugins["g1"] = {"P1", "P2"}
    /\ guilds["g1"].enabledPlugins = {"P2"}
    /\ DOMAIN guilds["g1"].permissions = {"P2"}
    /\ Loaded = {"P2"}

----------------------------------------------------------------------------
(* Claims about startup (StartupSpec) *)

(* C23: when bot.json cannot be loaded, or its token, applicationId,       *)
(* oauth2Secret or redirectURI is absent or empty, the process exits in    *)
(* loadConfig: startup never goes on to loadGuilds and the Discord login.  *)
C23_MissingCredentialExitsBeforeLogin ==
    (\/ ~appConfig.loadable
     \/ \E f \in {"token", "applicationId", "oauth2Secret", "redirectURI"} :
           appConfig[f] \in {"undefined", ""})
    => (/\ boot \in {"config", "exited"}
        /\ guilds = <<>>
        /\ updates = NoUpdate)

\* the process has exited over a readable bot.json whose only fault is an
\* empty redirectURI, the last field loadConfig looks at
C23_Witness ==
    /\ boot = "exited"
    /\ appConfig = [GoodConfig EXCEPT !.redirectURI = ""]

----------------------------------------------------------------------------
(* Claims about the event bus (Spec) *)

----------------------------------------------------------------------------
(* Claims about Permission records and the enabled-plugin set (Spec) *)

(* C27: every Guild in the registry has a Permission record for every      *)
(* plugin in the plugin registry.                                          *)
C27_EveryGuildHasEveryPermission ==
    \A g \in DOMAIN guilds : \A p \in Loaded : p \in DOMAIN guilds[g].permissions

(* C29: for a message of a guild that has finished loading, and a globally *)
(* enabled plugin the author is permitted to use, Guild.isPluginEnabled    *)
(* is true exactly when onMessage does not skip the plugin.                *)
C29_IsPluginEnabledAgreesWithRouter ==
    (Called /\ InGuild /\ PastMessageGates /\ TheGuild.pc = "ready")
    => \A p \in GloballyEnabled :
          PermissionPasses(p)
          => (IsPluginEnabled(Msg.guild, p) <=> p \in EvaluatedSet)

----------------------------------------------------------------------------
(* Claims about the three kinds of trigger (TriggerSpec) *)

\* the guild prefix, if the message has a guild context, then the plugin prefix
PrefixOf(p) == (IF InGuild THEN TheGuild.commandPrefix ELSE <<>>) \o PluginDef(p).prefix

\* a command-type trigger of p matched the routed message
CommandMatched(p) ==
    /\ (~InGuild \/ StartsWith(Msg.content, TheGuild.commandPrefix))
    /\ StartsWith(ToLowerCase(Msg.content), PrefixOf(p))
    /\ \E i \in 1..Len(PluginDef(p).command) :
          TriggeredBy(PluginDef(p).command[i], "command", ToLowerCase(Msg.content), PrefixOf(p))

\* the words-type commands of p whose trigger is a word of the routed message
TriggeredWords(p) ==
    SelectSeq(PluginDef(p).words,
              LAMBDA c : TriggeredBy(c, "words", ToLowerCase(Msg.content), <<>>))

\* position of a command in the definition of its plugin: command-type
\* commands, then words-type, then all-type, each in definition order
DefIndex(p, n) == CHOOSE i \in 1..Len(AllCommands(p)) : AllCommands(p)[i].name = n

\* position of a plugin in the registry
RegIndex(p) == CHOOSE i \in 1..Len(plugins) : plugins[i].id = p

(* C25: for each plugin past the gates, when a command-type trigger        *)
(* matched, no words-type command of the plugin executes; when none        *)
(* matched (also because the prefix check failed or the message is not a   *)
(* command), the words-type commands whose trigger is in the message are   *)
(* the candidates and execute if in scope and not dropped by the spam gate.*)
C25_WordsOnlyWithoutCommandMatch ==
    Called =>
        \A p \in EvaluatedSet :
            /\ CommandMatched(p)
               => ExecutedNames(p) \cap Names(PluginDef(p).words) = {}
            /\ (~CommandMatched(p) /\ p \notin route.restricted)
               => Names(InScope(TriggeredWords(p))) \subseteq ExecutedNames(p)

\* "!p hello hi" in g1: the command hello of P1 matched, so its word command
\* hi did not run although hi is a word of the message
C25_Witness ==
    /\ Called
    /\ InGuild
    /\ Msg.content = Str("!p hello hi")
    /\ CommandMatched("P1")
    /\ "hi" \in Names(TriggeredWords("P1"))
    /\ "hello" \in ExecutedNames("P1")
    /\ "hi" \notin ExecutedNames("P1")

(* C26: for each plugin past the gates every all-type command in scope is  *)
(* executed, whether or not the message is a command, a trigger matched or *)
(* the spam gate dropped the other candidates; the calls of a plugin are   *)
(* in definition order with the all-type ones last, and the calls of the   *)
(* plugins follow the registration order.                                  *)
C26_AllTypeAlwaysAndLast ==
    Called =>
        /\ \A p \in EvaluatedSet :
              /\ Names(InScope(PluginDef(p).all)) \subseteq ExecutedNames(p)
              /\ \A i, j \in 1..Len(ExecutedOf(p)) :
                    i < j => DefIndex(p, ExecutedOf(p)[i].command)
                             < DefIndex(p, ExecutedOf(p)[j].command)
        /\ \A i, j \in 1..Len(route.executed) :
              i < j => RegIndex(route.executed[i].plugin) <= RegIndex(route.executed[j].plugin)

\* a message without text in g1 reaches the all-type log of P1 and audit of P2
C26_Witness ==
    /\ Called
    /\ InGuild
    /\ Msg.content = <<>>
    /\ route.executed = << [plugin |-> "P1", command |-> "log"],
                           [plugin |-> "P2", command |-> "audit"] >>

\* the in-memory state of the guild holds the value of mutator call c
InMemoryHolds(gs, c) ==
    CASE c.op = "commandPrefix" -> gs[c.guild].commandPrefix = c.arg
      [] c.op = "allowedChannelIds" -> gs[c.guild].allowedChannelIds = SeqToSet(c.arg)
      [] c.op = "admins" -> gs[c.guild].admins = SeqToSet(c.arg)
      [] c.op = "setPluginPermission" ->
             /\ c.plugin \in DOMAIN gs[c.guild].permissions
             /\ gs[c.guild].permissions[c.plugin] = c.arg
      [] OTHER ->
             IF c.enabled
             THEN c.plugin \in gs[c.guild].enabledPlugins \/ gs[c.guild].enabledPlugins = {}
             ELSE c.plugin \notin gs[c.guild].enabledPlugins

\* C21: a mutator call that returns has put its value in the in-memory state
\* of the guild while storage is still untouched, and the step in which a
\* storage operation of a call is rejected only logs: the in-memory state of
\* every guild, the router and everything but the call's record stay as they
\* were.
C21_MutatorsUpdateMemoryFirstAndKeepIt ==
    [][/\ (Len(mutations') = Len(mutations) + 1 /\ mutations'[Len(mutations')].pc # "threw")
           => /\ InMemoryHolds(guilds', mutations'[Len(mutations')])
              /\ db' = db
       /\ (/\ Len(mutations') = Len(mutations)
           /\ \E i \in 1..Len(mutations) : mutations'[i].logged /\ ~mutations[i].logged)
           => /\ guilds' = guilds
              /\ route' = route
              /\ db' = db
              /\ boot' = boot]_vars

\* a rejected prefix update has left the new prefix in memory and the old one in storage
C21_Witness ==
    \E i \in 1..Len(mutations) :
        /\ mutations[i].op = "commandPrefix"
        /\ mutations[i].logged
        /\ mutations[i].guild \in DOMAIN guilds
        /\ guilds[mutations[i].guild].commandPrefix = mutations[i].arg
        /\ db.settings[mutations[i].guild] # mutations[i].arg

\* C22: when the allowedChannelIds mutator is the only mutator call made and
\* its write has completed without a rejected operation, the AllowedChannels
\* rows of the guild in storage are exactly the channels of the list it was
\* called with.
C22_PersistedChannelsAreTheList ==
    \A i \in 1..Len(mutations) :
        (/\ Len(mutations) = 1
         /\ mutations[i].op = "allowedChannelIds"
         /\ mutations[i].pc = "done"
         /\ ~mutations[i].logged)
        => db.allowedChannels[mutations[i].guild] = SeqToSet(mutations[i].arg)

\* the setPluginEnabled calls made on guild g for plugin p, by position
EnableCalls(g, p) ==
    {i \in 1..Len(mutations) : /\ mutations[i].op = "setPluginEnabled"
                                /\ mutations[i].guild = g
                                /\ mutations[i].plugin = p}

LastEnableCall(g, p) == CHOOSE i \in EnableCalls(g, p) : \A j \in EnableCalls(g, p) : j <= i

\* C28: a message of a guild is never evaluated against a loaded plugin
\* whose latest setPluginEnabled call on that guild was a
\* setPluginEnabled(P, false).
C28_DisabledPluginIsSkipped ==
    (Called /\ InGuild /\ Msg.guild \in DOMAIN guilds) =>
        \A p \in Loaded :
            (/\ EnableCalls(Msg.guild, p) # {}
             /\ ~mutations[LastEnableCall(Msg.guild, p)].enabled)
            => p \notin EvaluatedSet

\* C30: in the step that triggers plugin-deleted for plugin p, every other
\* plugin q that is installed and enabled and that onMessage skipped for a guild
\* because of the guild's enabledPlugins set is still skipped for that guild
\* after the step.
C30_DeletionActivatesNoPlugin ==
    [][\A p \in PluginIds :
          (p \in Loaded /\ p \notin Loaded')
          => \A g \in DOMAIN guilds, q \in GloballyEnabled' :
                EnabledSkips(Message("u1", g, "c1", "hi"), q)
                => EnabledSkips(Message("u1", g, "c1", "hi"), q)']_vars

----------------------------------------------------------------------------
(* Claims about guilds without a registry entry (JoinedSpec) *)

\* the scope of command n of plugin p
ScopeOf(p, n) ==
    LET c == CHOOSE c \in SeqToSet(AllCommands(p)) : c.name = n IN c.scope

\* C31: for a message that comes from a guild channel (message.guild is
\* not null), whether or not the guild has an entry in the registry, no
\* command of scope pm is executed.
C31_NoPmCommandInGuildChannel ==
    (Called /\ Msg.guild # NoGuild) =>
        /\ \A i \in 1..Len(route.executed) :
              ScopeOf(route.executed[i].plugin, route.executed[i].command) # "pm"

----------------------------------------------------------------------------
(* Claims about permission lists under concurrent loads (PermissionSpec) *)

\* the setPluginPermission calls made on guild g for plugin p that returned
PermissionCalls(g, p) ==
    {i \in 1..Len(mutations) : /\ mutations[i].op = "setPluginPermission"
                                /\ mutations[i].guild = g
                                /\ mutations[i].plugin = p
                                /\ mutations[i].pc # "threw"}

LastPermissionCall(g, p) ==
    CHOOSE i \in PermissionCalls(g, p) : \A j \in PermissionCalls(g, p) : j <= i

NoDuplicates(list) == \A i, j \in 1..Len(list) : list[i] = list[j] => i = j

\* C32: the step in which the storage read of a _loadPluginPermission(p)
\* completes leaves the principal list of the guild's Permission record for p
\* equal to the list of the latest setPluginPermission call when it was equal
\* to it before the step, and, when setPluginPermission was never called for
\* p, leaves it without a duplicated principal.
C32_LoadKeepsTheListThatWasSet ==
    [][\A g \in DOMAIN guilds, p \in PluginIds :
          (/\ g \in DOMAIN guilds'
           /\ \E obj \in 1..(MaxGuildObjects + 1) : InFlight(g, obj, p)' < InFlight(g, obj, p)
           /\ p \in DOMAIN guilds[g].permissions
           /\ p \in DOMAIN guilds'[g].permissions)
          => /\ (/\ PermissionCalls(g, p) # {}
                 /\ guilds[g].permissions[p] = mutations[LastPermissionCall(g, p)].arg)
                => guilds'[g].permissions[p] = guilds[g].permissions[p]
             /\ PermissionCalls(g, p) = {} => NoDuplicates(guilds'[g].permissions[p])]_vars

----------------------------------------------------------------------------
(* Claims about the persisted owners (OwnerSpec) *)

\* C33: when every setOwners call made so far had a non-empty array and the
\* delete and every insert of each call have completed, the rows of the
\* Owners table are exactly the ids of the last call.
C33_PersistedOwnersAreLastSetOwners ==
    (/\ Len(ownerCalls) > 0
     /\ \A i \in 1..Len(ownerCalls) : ownerCalls[i].pc = "done")
    => db.owners = ownerCalls[Len(ownerCalls)].ids

----------------------------------------------------------------------------
(* Claims about the dashboard's copy of a guild (DashboardSpec) *)

\* the setPluginEnabled calls the bot has applied to guild g, in order
BotEnableCalls(g) ==
    LET cs == SelectSeq(mutations, LAMBDA c : c.op = "setPluginEnabled" /\ c.guild = g)
    IN [i \in 1..Len(cs) |-> [plugin |-> cs[i].plugin, enabled |-> cs[i].enabled]]

\* C34: when the bot has applied exactly the setPluginEnabled calls made on
\* the dashboard page, in the same order, and no Plugin.getAll() of the page
\* is still to resolve, the enabledPlugins set of the page equals the
\* enabledPlugins set of the bot's Guild.
C34_DashboardAndBotAgree ==
    (/\ dashboard.open
     /\ dashboard.guild \in DOMAIN guilds
     /\ Len(dashboard.getAll) = 0
     /\ dashboard.calls = BotEnableCalls(dashboard.guild))
    => dashboard.enabledPlugins = guilds[dashboard.guild].enabledPlugins

----------------------------------------------------------------------------
(* Claims about the promises of startup (SettleSpec) *)

\* C35: whenever startup waits on the promise of loadGuilds, the promise
\* eventually settles: it resolves and startup goes on, or it rejects.
C35_LoadGuildsSettles ==
    (boot = "start") ~> (boot \in {"running", "rejected"})

====
